---- MODULE Spec2Model ----
(***************************************************************************)
(* cubecl-runtime (crates/cubecl-runtime/src):                             *)
(*  - memory_management/memory_pool/exclusive_pool.rs, ExclusiveMemoryPool:*)
(*    one page per storage buffer, one slice per page, pages reused        *)
(*    best-fit when their slice handle is free and physically released by  *)
(*    a rate-limited cleanup;                                              *)
(*  - timestamp_profiler.rs, TimestampProfiler: tokens opened by start,    *)
(*    consumed by stop, poisoned by error;                                 *)
(*  - feature_set.rs, DeviceProperties: the registry of device features.   *)
(* cubecl-common (crates/cubecl-common/src/id.rs), KernelId: the key of    *)
(* the compiled-kernel cache.                                              *)
(* cubecl-matmul and cubecl-linalg: DoubleBufferingMatmul::execute and the *)
(* cyclic loading of one buffer of the stage.                              *)
(* The components share no state: each specification below drives one of   *)
(* them and leaves the others as constructed.                              *)
(***************************************************************************)
EXTENDS Integers, Sequences, FiniteSets, TLC

(***************************************************************************)
(* Bounds of the model.                                                    *)
(***************************************************************************)
\* storage.alloc calls in one run (ids 1..MaxAllocs are never reused)
MaxAllocs == 2
\* live clones of one handle held by callers
MaxRefs == 2
\* bindings of one slice in flight on the device
MaxBound == 1
\* largest alloc_nr the caller passes to cleanup
MaxAllocNr == 5
\* largest size passed to alloc when the size classes are swept
MaxSize == 120

\* sizes passed to alloc: below the minimum size class, the minimum, above it
AllocSizes == {40, 64, 100}
\* sizes passed to try_reserve: the facade routes a size here when handles_alloc(size)
ReserveSizes == {64, 90, 100}

(***************************************************************************)
(* Program constants and constructor arguments.                            *)
(***************************************************************************)
\* const OVER_ALLOC: f64 = 1.35, as a percentage
OVER_ALLOC == 135
ALLOC_AFTER_FREE == 5
\* ExclusiveMemoryPool::new(min_alloc_size, alignment, dealloc_period)
alignment == 32
min_alloc_size == 64
dealloc_period == 5

\* Option::None for a page id; the panic of alloc's assert!
None == 0
Panic == -1
Ids == 1..MaxAllocs

VARIABLES
    pages,              \* Vec<MemoryPage>
    last_dealloc_check, \* u64
    biggest_alloc,      \* u64
    refs,               \* per slice id: handles of the latest reservation held by callers
    stale,              \* per slice id: references that stem from an earlier reservation
    bound,              \* per slice id: bindings in flight at the dispatch boundary
    buffers,            \* storage: buffer ids allocated and not deallocated
    nextId,             \* next fresh slice / buffer id
    largest_ever,       \* history: largest alloc_size ever passed to storage.alloc
    idle,               \* history: consecutive effective cleanup checks that found the
                        \* page free, with no reservation of it in between
    fresh,              \* history: pages whose handle was dropped right after alloc, not
                        \* reserved since and not yet seen by an effective cleanup check
    scen,               \* history: progress along alloc(100); drop; try_reserve(90)
    last,               \* history: the last operation, its argument and its result
    pc,                 \* "run", or "panicked" after a failed assert!
    state,              \* TimestampProfiler: HashMap<ProfilingToken, State>
    counter,            \* TimestampProfiler: u64
    clock,              \* the latest reading of the monotonic clock (Instant::now)
    started,            \* history: tokens returned by start
    stopped,            \* history: started tokens passed to stop
    heard,              \* history, per token: errors broadcast while it was open
    latest,             \* history, per token: the latest of them
    plast,              \* history: the profiler's last operation and its result
    set,                \* DeviceProperties: BTreeSet<Feature>
    memory,             \* DeviceProperties: MemoryDeviceProperties
    hardware,           \* DeviceProperties: HardwareProperties
    given,              \* history: the arguments of DeviceProperties::new
    flast,              \* history: the last operation on the properties
    proc,               \* the process: fixes its TypeIds and its hasher keys
    kid,                \* per slot: the KernelId a caller holds, if any
    src,                \* history, per slot: the T, x and m its KernelId was built from
    next_addr,          \* the address of the next Arc allocation
    cache,              \* HashSet<KernelId>
    k_range,            \* DoubleBufferingMatmul::execute: its argument (u32, u32)
    buffer_step,        \* elements of one stage along k
    at,                 \* position of the cube in execute
    iter,               \* iterations of the loop completed
    view,               \* offset of the loaders' view along k (advance_view)
    fill_no,            \* per buffer: fills issued so far
    synced,             \* per buffer: fills that a cube-wide barrier has followed
    reads,              \* history: the buffers read by the stage matmuls, in order
    mlast,              \* history: the last step of execute
    config,             \* cyclic buffer loading: the comptime configuration
    checked,            \* the result of LoadingStrategy::check, once called
    job,                \* the Job of one unit, once built
    task_id,            \* the next task of that job
    llast               \* history: the last call of execute_task

poolVars == <<pages, last_dealloc_check, biggest_alloc, refs, stale, bound, buffers,
              nextId, largest_ever, idle, fresh, scen, last, pc>>
profilerVars == <<state, counter, clock, started, stopped, heard, latest, plast>>
deviceVars == <<set, memory, hardware, given, flast>>
kernelVars == <<proc, kid, src, next_addr, cache>>
matmulVars == <<k_range, buffer_step, at, iter, view, fill_no, synced, reads, mlast>>
loaderVars == <<config, checked, job, task_id, llast>>

vars == <<poolVars, profilerVars, deviceVars, kernelVars, matmulVars, loaderVars>>

(***************************************************************************)
(* Pure helpers.                                                           *)
(***************************************************************************)
\* u64::next_multiple_of
next_multiple_of(n, a) == IF n % a = 0 THEN n ELSE n + (a - (n % a))

\* an over-allocation that truncates the product instead of rounding it
over_alloc_trunc(size) == (size * OVER_ALLOC) \div 100

\* (size as f64 * OVER_ALLOC).round() as u64: f64::round rounds half away from zero
over_alloc(size) == (size * OVER_ALLOC + 50) \div 100

\* alloc_page: the physical size requested from storage
page_alloc_size(size) == next_multiple_of(over_alloc(size), alignment)

\* calculate_padding(size, buffer_alignment): bytes past the logical size up to alignment
calculate_padding(size, a) == IF size % a = 0 THEN 0 ELSE a - (size % a)

\* strong references to the slice handle besides the pool's own copy: the
\* callers' handles and the references held for launches in flight
ext_refs(id) == refs[id] + stale[id] + bound[id]

\* Slice::is_free: only the pool's own copy of the handle is left
is_free(id) == ext_refs(id) = 0

\* the slice ids of a vector of pages, and the page of a slice id
ids_of(ps) == {ps[i].id : i \in 1..Len(ps)}
page_in(ps, id) == ps[CHOOSE i \in 1..Len(ps) : ps[i].id = id]
PageIds == ids_of(pages)
PageOf(id) == page_in(pages, id)

\* get: the page whose slice id is the binding's, as an index (0: None)
get(binding_id) ==
    LET hit == {i \in 1..Len(pages) : pages[i].id = binding_id}
    IN IF hit = {} THEN 0 ELSE CHOOSE i \in hit : \A j \in hit : i <= j

\* a get_free_page whose filter forgets is_free
page_fits_any(p, size) == p.alloc_size >= size

\* a get_free_page whose filter forgets the capacity test
page_fits_free(p, size) == is_free(p.id)

\* filter of get_free_page
page_fits(p, size) == p.alloc_size >= size /\ is_free(p.id)

\* first-fit instead of min_by_key
first_of(cand) ==
    IF cand = {} THEN 0 ELSE CHOOSE i \in cand : \A j \in cand : i <= j

\* min_by_key(alloc_size): the first of the minimal elements
first_min_by_alloc_size(cand) ==
    IF cand = {} THEN 0
    ELSE CHOOSE i \in cand : \A j \in cand :
            \/ pages[i].alloc_size < pages[j].alloc_size
            \/ pages[i].alloc_size = pages[j].alloc_size /\ i <= j

\* a get_free_page that takes the smallest page that fits, free or not
get_free_page_any(size) ==
    first_min_by_alloc_size({i \in 1..Len(pages) : pages[i].alloc_size >= size})

\* get_free_page: index of the smallest free page that fits (0: None)
get_free_page(size) ==
    first_min_by_alloc_size({i \in 1..Len(pages) : page_fits(pages[i], size)})

\* handles_alloc
handles_alloc(size) == size >= min_alloc_size

\* an assert! with > instead of >=
alloc_assert_strict(size) == size > min_alloc_size

\* the assert! of alloc
alloc_assert(size) == size >= min_alloc_size

\* an alloc_page that records the requested size instead of the physical one
biggest_after_requested(size) == IF size > biggest_alloc THEN size ELSE biggest_alloc

\* alloc_page: self.biggest_alloc.max(alloc_size)
biggest_after(size) ==
    IF page_alloc_size(size) > biggest_alloc THEN page_alloc_size(size) ELSE biggest_alloc

\* an alloc that leaves the free_count of alloc_page (0)
new_page_cold(id, size) ==
    [id |-> id, alloc_size |-> page_alloc_size(size), offset |-> 0, size |-> size,
     padding |-> calculate_padding(size, alignment), free_count |-> 0]

\* the page alloc pushes: alloc_page, then free_count = ALLOC_AFTER_FREE - 1
new_page(id, size) ==
    [id |-> id, alloc_size |-> page_alloc_size(size), offset |-> 0, size |-> size,
     padding |-> calculate_padding(size, alignment),
     free_count |-> ALLOC_AFTER_FREE - 1]

\* a try_reserve that narrows the window but keeps the old padding
reserve_page_keep_padding(p, size) ==
    [p EXCEPT !.offset = 0, !.size = size,
              !.free_count = IF @ = 0 THEN 0 ELSE @ - 1]

\* a try_reserve that decrements free_count without saturating
reserve_page_wrapping(p, size) ==
    [p EXCEPT !.offset = 0, !.size = size,
              !.padding = calculate_padding(size, alignment),
              !.free_count = @ - 1]

\* try_reserve on the page found: utilization, padding, free_count
reserve_page(p, size) ==
    [p EXCEPT !.offset = 0, !.size = size,
              !.padding = calculate_padding(size, alignment),
              !.free_count = IF @ = 0 THEN 0 ELSE @ - 1]

\* a try_reserve whose fast rejection compares with min_alloc_size
try_reserve_result_min(size) ==
    IF size > min_alloc_size THEN [idx |-> 0, pages |-> pages]
    ELSE LET i == get_free_page(size)
         IN IF i = 0 THEN [idx |-> 0, pages |-> pages]
            ELSE [idx |-> i, pages |-> [pages EXCEPT ![i] = reserve_page(@, size)]]

\* a try_reserve that narrows the smallest free page before it tests its capacity
try_reserve_result_eager(size) ==
    IF size > biggest_alloc THEN [idx |-> 0, pages |-> pages]
    ELSE LET i == first_min_by_alloc_size({k \in 1..Len(pages) : is_free(pages[k].id)})
         IN IF i = 0 THEN [idx |-> 0, pages |-> pages]
            ELSE [idx |-> IF pages[i].alloc_size >= size THEN i ELSE 0,
                  pages |-> [pages EXCEPT ![i] = reserve_page(@, size)]]

\* try_reserve: the page index it returns (0: None) and the pages it leaves
try_reserve_result(size) ==
    IF size > biggest_alloc THEN [idx |-> 0, pages |-> pages]
    ELSE LET i == get_free_page(size)
         IN IF i = 0 THEN [idx |-> 0, pages |-> pages]
            ELSE [idx |-> i, pages |-> [pages EXCEPT ![i] = reserve_page(@, size)]]

\* a MemoryUsage that counts every page of the pool as used
get_memory_usage_all ==
    LET Sum[k \in 0..Len(pages)] ==
            IF k = 0 THEN [in_use |-> 0, padding |-> 0, reserved |-> 0]
            ELSE [in_use |-> Sum[k - 1].in_use + pages[k].size,
                  padding |-> Sum[k - 1].padding + pages[k].padding,
                  reserved |-> Sum[k - 1].reserved + pages[k].alloc_size]
    IN [number_allocs |-> Len(pages),
        bytes_in_use |-> Sum[Len(pages)].in_use,
        bytes_padding |-> Sum[Len(pages)].padding,
        bytes_reserved |-> Sum[Len(pages)].reserved]

\* MemoryUsage
get_memory_usage ==
    LET used == {i \in 1..Len(pages) : ~is_free(pages[i].id)}
        Sum[S \in SUBSET (1..Len(pages))] ==
            IF S = {} THEN [in_use |-> 0, padding |-> 0, reserved |-> 0]
            ELSE LET i == CHOOSE x \in S : TRUE
                     r == Sum[S \ {i}]
                 IN [in_use |-> r.in_use + pages[i].size,
                     padding |-> r.padding + pages[i].padding,
                     reserved |-> r.reserved + pages[i].alloc_size]
    IN [number_allocs |-> Cardinality(used),
        bytes_in_use |-> Sum[used].in_use,
        bytes_padding |-> Sum[used].padding,
        bytes_reserved |-> Sum[1..Len(pages)].reserved]

\* a rate limit that compares with the whole dealloc_period
check_period_whole == dealloc_period

\* cleanup: check_period and the rate limit
check_period == dealloc_period \div ALLOC_AFTER_FREE
cleanup_skips(alloc_nr) == alloc_nr - last_dealloc_check < check_period

\* a visit that counts up every page, free or in use
cleanup_visit_all(p) == [p EXCEPT !.free_count = @ + 1]

\* cleanup, closure of retain_mut: the page after the visit
cleanup_visit(p) ==
    IF is_free(p.id) THEN [p EXCEPT !.free_count = @ + 1] ELSE p

\* a cleanup whose threshold test is > instead of >=
cleanup_deallocs_late(p) ==
    is_free(p.id) /\ p.free_count + 1 > ALLOC_AFTER_FREE

\* a cleanup that tests the count outside the is_free branch
cleanup_deallocs_any(p) == p.free_count + 1 >= ALLOC_AFTER_FREE

\* cleanup, closure of retain_mut: whether the visited page is deallocated
cleanup_deallocs(p) ==
    is_free(p.id) /\ cleanup_visit(p).free_count >= ALLOC_AFTER_FREE

\* a closure that deallocates the buffer and still answers true
cleanup_retains_all(p) == TRUE

\* cleanup, closure of retain_mut: its answer, false for a deallocated page
cleanup_retains(p) == ~cleanup_deallocs(p)

(***************************************************************************)
(* TimestampProfiler (timestamp_profiler.rs).                              *)
(***************************************************************************)
\* start calls in one run
MaxTokens == 3
\* readings of the monotonic clock run from 0 to MaxClock
MaxClock == 1
\* token ids a caller may pass to stop: one more than start ever returns
TokenIds == 0..MaxTokens
\* ProfileError values a device failure may broadcast
ProfileErrors == {"E1", "E2"}
\* ProfileError::NotRegistered
NotRegistered == "NotRegistered"

\* a start that hands the poison of the open tokens on to the new one
StateStart_inherit(instant) ==
    LET poisoned == {k \in DOMAIN state : state[k].tag = "Error"}
    IN IF poisoned = {} THEN [tag |-> "Start", instant |-> instant]
       ELSE state[CHOOSE k \in poisoned : TRUE]

\* enum State
StateStart(instant) == [tag |-> "Start", instant |-> instant]
StateError(profile_error) == [tag |-> "Error", error |-> profile_error]

\* Result<ProfileDuration, ProfileError>
Ok(duration) == [tag |-> "Ok", duration |-> duration]
Err(profile_error) == [tag |-> "Err", error |-> profile_error]

\* HashMap::insert and HashMap::remove
insert(map, key, value) ==
    [k \in DOMAIN map \cup {key} |-> IF k = key THEN value ELSE map[k]]
remove(map, key) == [k \in DOMAIN map \ {key} |-> map[k]]

\* is_empty
is_empty == DOMAIN state = {}

\* a start that numbers its token by the entries in the map
start_token_len == Cardinality(DOMAIN state)

\* start: the id of the token it returns
start_token == counter

\* a stop that removes the entry only when it holds a start instant
stop_state_started(token) ==
    IF token \in DOMAIN state /\ state[token].tag = "Start"
    THEN remove(state, token) ELSE state

\* stop: the map after self.state.remove(&token)
stop_state(token) == remove(state, token)

\* stop: its result when the clock reads instant now
stop_result(token, now) ==
    IF token \in DOMAIN state
    THEN IF state[token].tag = "Start"
         THEN Ok(now - state[token].instant)
         ELSE Err(state[token].error)
    ELSE Err(NotRegistered)

\* an error that drops the entries that already hold an error
error_state_retain(profile_error) ==
    [k \in {t \in DOMAIN state : state[t].tag = "Start"} |-> StateError(profile_error)]

\* an error that poisons only the tokens that still hold a start instant
error_state_first(profile_error) ==
    [k \in DOMAIN state |->
        IF state[k].tag = "Start" THEN StateError(profile_error) ELSE state[k]]

\* error: every entry of the map becomes State::Error(error)
error_state(profile_error) == [k \in DOMAIN state |-> StateError(profile_error)]

\* TimestampProfiler::default()
ProfilerDefault ==
    /\ state = [k \in {} |-> StateStart(0)]
    /\ counter = 0
    /\ clock = 0
    /\ started = {}
    /\ stopped = {}
    /\ heard = [t \in TokenIds |-> {}]
    /\ latest = [t \in TokenIds |-> "none"]
    /\ plast = [op |-> "default", token |-> 0, ret |-> Err("none")]

(***************************************************************************)
(* DeviceProperties (feature_set.rs).                                      *)
(***************************************************************************)
\* feature tags are 1..MaxFeature
MaxFeature == 3
\* longest slice of features passed to new
MaxSlice == 2
Features == 1..MaxFeature
\* values of MemoryDeviceProperties and HardwareProperties
MemoryProps == {"m1", "m2"}
HardwareProps == {"h1", "h2"}

\* an insert that always reports a new element
btree_insert_true(s, feature) == [set |-> s \cup {feature}, inserted |-> TRUE]

\* an insert that takes out the element it finds
btree_insert_toggle(s, feature) ==
    IF feature \in s THEN [set |-> s \ {feature}, inserted |-> FALSE]
    ELSE [set |-> s \cup {feature}, inserted |-> TRUE]

\* BTreeSet::insert: the set it leaves and the bool it returns
btree_insert(s, feature) == [set |-> s \cup {feature}, inserted |-> feature \notin s]

\* new: the loop that inserts every feature of the slice
RECURSIVE new_set(_)
new_set(features) ==
    IF features = <<>> THEN {}
    ELSE btree_insert(new_set(SubSeq(features, 1, Len(features) - 1)),
                      features[Len(features)]).set

\* feature_enabled, memory_properties, hardware_properties
feature_enabled(feature) == feature \in set
memory_properties == memory
hardware_properties == hardware

\* DeviceProperties::new(features, memory_props, hardware)
DeviceNew(features, memory_props, hardware_props) ==
    /\ set = new_set(features)
    /\ memory = memory_props
    /\ hardware = hardware_props
    /\ given = [features |-> features, memory |-> memory_props,
                hardware |-> hardware_props]
    /\ flast = [op |-> "new", feature |-> 0, ret |-> FALSE]

(***************************************************************************)
(* KernelId (cubecl-common/src/id.rs).                                     *)
(***************************************************************************)
\* processes that build kernel ids: each has its own TypeIds and hasher keys
MaxProc == 2
\* payload values are 1..MaxValue
MaxValue == 3
\* info calls in one run: each allocates one Arc
MaxInfos == 2
\* entries the kernel cache holds
MaxCache == 1
\* the KernelIds a caller holds
Slots == {1, 2}
\* kernel types T; type_name does not tell B from C
KernelTypes == {"A", "B", "C"}
\* concrete payload types I: Exact derives its equality, Loose compares a key
PayloadTypes == {"Exact", "Loose"}
PayloadValues == 1..MaxValue
\* enum ExecutionMode
ExecutionModes == {"Checked", "Unchecked"}

\* Option<T>
OptNone == <<>>
Some(x) == <<x>>

\* core::any::TypeId::of::<T>() in this process
type_id_of(T) == <<proc, T>>

\* core::any::type_name::<T>()
type_name_of(T) == IF T = "A" THEN "kernels::a" ELSE "kernels::b"

\* the payload type's own PartialEq, Hash and Debug
own_key(ty, value) == IF ty = "Loose" THEN value % 2 ELSE value
own_eq(ty, v, w) == own_key(ty, v) = own_key(ty, w)
own_hash(ty, value) == own_key(ty, value)
own_debug(ty, value) == <<ty, "(", ToString(value), ")">>

\* Info::new: the value behind a fresh Arc
InfoNew(ty, value, addr) == [ty |-> ty, value |-> value, addr |-> addr]

\* DynKey for T: dyn_type_id
dyn_type_id(info) == type_id_of(info.ty)

\* DynKey for T: dyn_eq, the downcast and then T's equality
dyn_eq(info, other) ==
    IF other.ty = info.ty THEN own_eq(info.ty, info.value, other.value) ELSE FALSE

\* a dyn_hash that hashes the address of the allocation
dyn_hash_ptr(info) == <<ToString(<<proc, info.addr>>)>>

\* DynKey for T: dyn_hash writes DefaultHashBuilder::new().hash_one(self); the
\* words written to a Hasher are kept as a sequence of strings
dyn_hash(info) == <<ToString(<<proc, own_hash(info.ty, info.value)>>)>>

\* PartialEq for Info and for Option<Info>
info_eq(a, b) ==
    IF a = OptNone \/ b = OptNone THEN a = b ELSE dyn_eq(a[1], b[1])

\* Hash for Info and for Option<Info>
info_hash(a) ==
    IF a = OptNone THEN <<"0">>
    ELSE <<"1", ToString(dyn_type_id(a[1]))>> \o dyn_hash(a[1])

\* Hash for Option<ExecutionMode>
mode_hash(m) == IF m = OptNone THEN <<"0">> ELSE <<"1", m[1]>>

\* Hash for KernelId
kernel_id_hash(k) ==
    <<ToString(k.type_id)>> \o info_hash(k.info) \o mode_hash(k.mode)

\* an equality that compares the type names
kernel_id_eq_name(a, b) ==
    a.type_name = b.type_name /\ a.mode = b.mode /\ info_eq(a.info, b.info)

\* PartialEq for KernelId
kernel_id_eq(a, b) ==
    a.type_id = b.type_id /\ a.mode = b.mode /\ info_eq(a.info, b.info)

\* Debug for Option<Info> and Option<ExecutionMode>
info_debug(a) ==
    IF a = OptNone THEN <<"None">>
    ELSE <<"Some(">> \o own_debug(a[1].ty, a[1].value) \o <<")">>
mode_debug(m) == IF m = OptNone THEN <<"None">> ELSE <<"Some(", m[1], ")">>

\* a rendering that starts with the TypeId
stable_format_type_id(k) ==
    <<ToString(k.type_id), "-">> \o info_debug(k.info) \o <<"-">> \o mode_debug(k.mode)

\* stable_format: format!("{}-{:?}-{:?}", type_name, info, mode)
stable_format(k) ==
    <<k.type_name, "-">> \o info_debug(k.info) \o <<"-">> \o mode_debug(k.mode)

\* KernelId::new::<T>()
kernel_id_new(T) ==
    [type_id |-> type_id_of(T), type_name |-> type_name_of(T),
     info |-> OptNone, mode |-> OptNone]

\* HashSet<KernelId>: contains looks in the bucket of the hash, then compares
hash_set_contains(s, k) ==
    \E e \in s : kernel_id_hash(e) = kernel_id_hash(k) /\ kernel_id_eq(e, k)
hash_set_insert(s, k) == IF hash_set_contains(s, k) THEN s ELSE s \cup {k}

\* the built ids
Built == {slot \in Slots : kid[slot] # OptNone}

\* a process that has built no kernel id yet
KernelStart(p) ==
    /\ proc = p
    /\ kid = [slot \in Slots |-> OptNone]
    /\ src = [slot \in Slots |-> [T |-> "A", x |-> OptNone, m |-> OptNone]]
    /\ next_addr = 1
    /\ cache = {}

(***************************************************************************)
(* cubecl-matmul (crates/cubecl-matmul/src/components/global/multi_stage/  *)
(* double_buffering/matmul.rs), DoubleBufferingMatmul::execute: the stage  *)
(* matmuls of one cube over a k range, reading one buffer of the stage     *)
(* while the other is loaded.                                              *)
(***************************************************************************)
MaxK == 6
MaxStep == 2
BufferIds == {"A", "B"}

\* the loop is followed for at most this many iterations; no k range within
\* MaxK with at least one stage asks for as many
LoopCap == (MaxK + 1) \div 2

div_ceil(a, b) == (a + b - 1) \div b

loop_step == buffer_step * 2

range == k_range[2] - k_range[1]

needed_stage_matmuls == div_ceil(range, buffer_step)

\* Algorithm assumes an even number of stages
num_stage_matmuls == needed_stage_matmuls + (needed_stage_matmuls % 2)

\* u32: 0 - 2 wraps to 2^32 - 2
num_loops ==
    IF num_stage_matmuls >= 2 THEN (num_stage_matmuls - 2) \div 2
    ELSE 2147483647

\* the readers handed to the stage matmul at each call site
reader_at(p) ==
    CASE p = "loop_a" -> "A"
      [] p = "loop_b" -> "B"
      [] p = "tail_a" -> "A"
      [] p = "tail_b" -> "B"

buffer_to_load_same(p) == reader_at(p)

\* DoubleBufferingEventListener::new(buffer, ..) at each call site
buffer_to_load(p) ==
    CASE p = "loop_a" -> "B"
      [] p = "loop_b" -> "A"
      [] p = "tail_a" -> "B"

\* for _ in 0..num_loops
loop_head(i) == IF i < num_loops THEN "loop_a" ELSE "tail_a"

\* fill_stage(loader, buffer, config) on the lhs and the rhs loader
fill_stage(fills, buffer) == [fills EXCEPT ![buffer] = @ + 1]

\* the listener has filled its buffer when the stage matmul returns
listener_fill(fills, buffer) == fill_stage(fills, buffer)

MStep(op, read, load) == [op |-> op, read |-> read, load |-> load]

\* execute is entered
MatmulStart(k, step) ==
    /\ k_range = k
    /\ buffer_step = step
    /\ at = "fill"
    /\ iter = 0
    /\ view = 0
    /\ fill_no = [b \in BufferIds |-> 0]
    /\ synced = [b \in BufferIds |-> 0]
    /\ reads = <<>>
    /\ mlast = MStep("enter", "-", "-")

(***************************************************************************)
(* cubecl-linalg (crates/cubecl-linalg/src/matmul/components/global/load/  *)
(* strategy/sync_buffer_cyclic.rs): the units of a cube load the lines of  *)
(* one buffer of the stage cyclically.                                     *)
(***************************************************************************)
MaxLineSize == 2
MaxTileSize == 4
MaxTileCount == 2
MaxPlaneDim == 2
MaxPlanes == 2
LoaderCheckLevels == {"Comptime", "Runtime"}

Config(level, line, tile, rows, cols, dim, planes) ==
    [loader_check_level |-> level, line_size |-> line, tile_size |-> tile,
     tile_count_row |-> rows, tile_count_col |-> cols,
     plane_dim |-> dim, num_planes |-> planes]

\* tiles of whole lines
Configs ==
    {c \in {Config(level, line, tile, rows, cols, dim, planes) :
               level \in LoaderCheckLevels, line \in 1..MaxLineSize,
               tile \in 1..MaxTileSize,
               rows \in 1..MaxTileCount, cols \in 1..MaxTileCount,
               dim \in 1..MaxPlaneDim, planes \in 1..MaxPlanes} :
        c.tile_size % c.line_size = 0}

num_lines_per_tile == config.tile_size \div config.line_size

\* tiling_dimensions.tile_count()
num_tiles_in_buffer == config.tile_count_row * config.tile_count_col

total_num_lines == num_tiles_in_buffer * num_lines_per_tile

total_units == config.plane_dim * config.num_planes

jump_length == total_units * config.line_size

num_tasks_per_unit == div_ceil(total_num_lines, total_units)

max_id == total_units - 1

max_task_id == num_tasks_per_unit - 1

max_position_base == max_id * config.line_size

max_position == max_position_base + max_task_id * jump_length

\* tiling_dimensions.total_size()
num_stage_elements == config.tile_size * num_tiles_in_buffer

\* LoadingValidation::check
check ==
    IF config.loader_check_level = "Comptime" /\ max_position > num_stage_elements
    THEN "Err"
    ELSE "Ok"

balanced_workload == num_tasks_per_unit % total_units = 0

unit_id(UNIT_POS_Y, UNIT_POS_X) == UNIT_POS_Y * config.plane_dim + UNIT_POS_X

\* SyncBufferLoadingStrategy::new_job
new_job(UNIT_POS_Y, UNIT_POS_X) ==
    [unit_position_base |-> unit_id(UNIT_POS_Y, UNIT_POS_X) * config.line_size,
     num_tasks_per_unit |-> num_tasks_per_unit,
     jump_length |-> jump_length,
     num_lines_per_tile |-> num_lines_per_tile,
     balanced_workload |-> balanced_workload,
     num_stage_elements |-> num_stage_elements,
     loader_check_level |-> config.loader_check_level]

unit_position(this, task) == this.unit_position_base + task * this.jump_length

\* the comptime condition under which execute_task loads without a bounds test
guard_skipped(this) ==
    this.loader_check_level = "Comptime" \/ this.balanced_workload

\* whether execute_task calls load_and_store_line
loads(this, task) ==
    IF guard_skipped(this) THEN TRUE
    ELSE unit_position(this, task) < this.num_stage_elements

LStep(op, position, guarded, loaded) ==
    [op |-> op, unit_position |-> position, guarded |-> guarded, loaded |-> loaded]

\* a configuration that has not been validated yet
LoaderStart(c) ==
    /\ config = c
    /\ checked = "no"
    /\ job = <<>>
    /\ task_id = 0
    /\ llast = LStep("none", 0, FALSE, FALSE)

(***************************************************************************)
(* History bookkeeping.                                                    *)
(***************************************************************************)
Op(op, arg, ret, freed) == [op |-> op, arg |-> arg, ret |-> ret, freed |-> freed]

\* 0 -alloc(100)-> 1 -drop-> 2 -try_reserve(90)-> 3; 4: the run left the scenario
ScenStep(op, arg) ==
    IF scen = 0 /\ op = "alloc" /\ arg = 100 THEN 1
    ELSE IF scen = 1 /\ op = "drop" THEN 2
    ELSE IF scen = 2 /\ op = "try_reserve" /\ arg = 90 THEN 3
    ELSE 4

(***************************************************************************)
(* State after ExclusiveMemoryPool::new.                                   *)
(***************************************************************************)
PoolNew ==
    /\ min_alloc_size % alignment = 0
    /\ pages = <<>>
    /\ last_dealloc_check = 0
    /\ biggest_alloc = min_alloc_size
    /\ refs = [id \in Ids |-> 0]
    /\ stale = [id \in Ids |-> 0]
    /\ bound = [id \in Ids |-> 0]
    /\ buffers = {}
    /\ nextId = 1
    /\ largest_ever = 0
    /\ idle = [id \in Ids |-> 0]
    /\ fresh = {}
    /\ scen = 0
    /\ last = Op("new", 0, None, {})
    /\ pc = "run"

\* a pool, next to a default profiler and the properties of a device that
\* registers its features later
Init ==
    /\ PoolNew
    /\ ProfilerDefault
    /\ DeviceNew(<<>>, "m1", "h1")
    /\ KernelStart(1)
    /\ MatmulStart(<<0, 2>>, 1)
    /\ LoaderStart(Config("Comptime", 1, 1, 1, 1, 1, 1))

(***************************************************************************)
(* Operations.                                                             *)
(***************************************************************************)
\* alloc(storage, size)
Alloc(size) ==
    /\ pc = "run"
    /\ IF ~alloc_assert(size)
       THEN /\ pc' = "panicked"
            /\ last' = Op("alloc", size, Panic, {})
            /\ UNCHANGED <<pages, biggest_alloc, refs, buffers, nextId, largest_ever>>
       ELSE /\ nextId <= MaxAllocs
            /\ pages' = Append(pages, new_page(nextId, size))
            /\ biggest_alloc' = biggest_after(size)
            /\ largest_ever' = IF page_alloc_size(size) > largest_ever
                               THEN page_alloc_size(size) ELSE largest_ever
            /\ buffers' = buffers \cup {nextId}
            /\ refs' = [refs EXCEPT ![nextId] = 1]
            /\ nextId' = nextId + 1
            /\ last' = Op("alloc", size, nextId, {})
            /\ pc' = pc
    /\ scen' = ScenStep("alloc", size)
    /\ UNCHANGED <<last_dealloc_check, stale, bound, idle, fresh>>
    /\ UNCHANGED <<profilerVars, deviceVars, kernelVars, matmulVars, loaderVars>>

\* try_reserve(size)
TryReserve(size) ==
    /\ pc = "run"
    /\ LET r == try_reserve_result(size)
           id == IF r.idx = 0 THEN None ELSE pages[r.idx].id
       IN /\ pages' = r.pages
          /\ last' = Op("try_reserve", size, id, {})
          /\ IF r.idx = 0
             THEN UNCHANGED <<refs, stale, bound, idle, fresh>>
             ELSE /\ fresh' = fresh \ {id}
                  /\ refs' = [refs EXCEPT ![id] = 1]
                  /\ stale' = [stale EXCEPT ![id] = @ + refs[id] + bound[id]]
                  /\ bound' = [bound EXCEPT ![id] = 0]
                  /\ idle' = [idle EXCEPT ![id] = 0]
    /\ scen' = ScenStep("try_reserve", size)
    /\ UNCHANGED <<last_dealloc_check, biggest_alloc, buffers, nextId, largest_ever, pc>>
    /\ UNCHANGED <<profilerVars, deviceVars, kernelVars, matmulVars, loaderVars>>

\* SliceHandle::clone by a caller
Clone(id) ==
    /\ pc = "run"
    /\ refs[id] > 0
    /\ refs[id] < MaxRefs
    /\ refs' = [refs EXCEPT ![id] = @ + 1]
    /\ last' = Op("clone", 0, None, {})
    /\ scen' = ScenStep("clone", id)
    /\ UNCHANGED <<pages, last_dealloc_check, biggest_alloc, stale, bound, buffers,
                   nextId, largest_ever, idle, fresh, pc>>
    /\ UNCHANGED <<profilerVars, deviceVars, kernelVars, matmulVars, loaderVars>>

\* drop of a caller's SliceHandle
Drop(id) ==
    /\ pc = "run"
    /\ refs[id] + stale[id] > 0
    /\ IF stale[id] > 0
       THEN stale' = [stale EXCEPT ![id] = @ - 1] /\ refs' = refs
       ELSE refs' = [refs EXCEPT ![id] = @ - 1] /\ stale' = stale
    /\ fresh' = IF last.op = "alloc" /\ last.ret = id THEN fresh \cup {id} ELSE fresh
    /\ last' = Op("drop", 0, None, {})
    /\ scen' = ScenStep("drop", id)
    /\ UNCHANGED <<pages, last_dealloc_check, biggest_alloc, bound, buffers,
                   nextId, largest_ever, idle, pc>>
    /\ UNCHANGED <<profilerVars, deviceVars, kernelVars, matmulVars, loaderVars>>

\* a kernel launch binds the slice: the dispatch boundary holds a reference
Launch(id) ==
    /\ pc = "run"
    /\ refs[id] > 0
    /\ bound[id] < MaxBound
    /\ get(id) # 0
    /\ bound' = [bound EXCEPT ![id] = @ + 1]
    /\ last' = Op("launch", 0, None, {})
    /\ scen' = ScenStep("launch", id)
    /\ UNCHANGED <<pages, last_dealloc_check, biggest_alloc, refs, stale, buffers,
                   nextId, largest_ever, idle, fresh, pc>>
    /\ UNCHANGED <<profilerVars, deviceVars, kernelVars, matmulVars, loaderVars>>

\* the device retires the launch: the binding is released
Retire(id) ==
    /\ pc = "run"
    /\ bound[id] > 0
    /\ bound' = [bound EXCEPT ![id] = @ - 1]
    /\ last' = Op("retire", 0, None, {})
    /\ scen' = ScenStep("retire", id)
    /\ UNCHANGED <<pages, last_dealloc_check, biggest_alloc, refs, stale, buffers,
                   nextId, largest_ever, idle, fresh, pc>>
    /\ UNCHANGED <<profilerVars, deviceVars, kernelVars, matmulVars, loaderVars>>

\* cleanup(storage, alloc_nr). The caller passes its allocation counter, which
\* never runs backwards, so the u64 subtraction alloc_nr - last_dealloc_check
\* does not underflow.
Cleanup(alloc_nr) ==
    /\ pc = "run"
    /\ alloc_nr >= last_dealloc_check
    /\ IF cleanup_skips(alloc_nr)
       THEN /\ last' = Op("cleanup", alloc_nr, None, {})
            /\ UNCHANGED <<pages, last_dealloc_check, buffers, idle, fresh>>
       ELSE LET gone == {i \in 1..Len(pages) : cleanup_deallocs(pages[i])}
                visited == [i \in 1..Len(pages) |-> cleanup_visit(pages[i])]
                idle2 == [id \in Ids |->
                            IF id \in PageIds
                            THEN IF is_free(id) THEN idle[id] + 1 ELSE 0
                            ELSE idle[id]]
            IN /\ last_dealloc_check' = alloc_nr
               /\ pages' = SelectSeq(visited, LAMBDA p : cleanup_retains(PageOf(p.id)))
               /\ buffers' = buffers \ {pages[i].id : i \in gone}
               /\ idle' = idle2
               /\ fresh' = {}
               /\ last' = Op("cleanup", alloc_nr, 1,
                             {<<pages[i].id, idle2[pages[i].id], pages[i].id \in fresh>> :
                                i \in gone})
    /\ scen' = ScenStep("cleanup", alloc_nr)
    /\ UNCHANGED <<biggest_alloc, refs, stale, bound, nextId, largest_ever, pc>>
    /\ UNCHANGED <<profilerVars, deviceVars, kernelVars, matmulVars, loaderVars>>

\* get_memory_usage(&self): reads the pool and returns the MemoryUsage record
GetMemoryUsage ==
    /\ pc = "run"
    /\ last' = Op("get_memory_usage", 0, get_memory_usage, {})
    /\ scen' = ScenStep("get_memory_usage", 0)
    /\ UNCHANGED <<pages, last_dealloc_check, biggest_alloc, refs, stale, bound,
                   buffers, nextId, largest_ever, idle, fresh, pc>>
    /\ UNCHANGED <<profilerVars, deviceVars, kernelVars, matmulVars, loaderVars>>

\* callers that allocate, reserve, clone and drop handles, and the periodic cleanup
Next ==
    \/ \E size \in AllocSizes : Alloc(size)
    \/ \E size \in ReserveSizes : TryReserve(size)
    \/ \E id \in Ids : Clone(id)
    \/ \E id \in Ids : Drop(id)
    \/ \E n \in 0..MaxAllocNr : Cleanup(n)

Spec == Init /\ [][Next]_vars

\* callers that launch kernels on their slices: bindings outlive the handles
NextDispatch ==
    \/ \E size \in AllocSizes : Alloc(size)
    \/ \E size \in ReserveSizes : TryReserve(size)
    \/ \E id \in Ids : Drop(id)
    \/ \E id \in Ids : Launch(id)
    \/ \E id \in Ids : Retire(id)
    \/ \E n \in 0..MaxAllocNr : Cleanup(n)

SpecDispatch == Init /\ [][NextDispatch]_vars

\* callers that only allocate, over every size from the minimum up to MaxSize
NextSizes == \E size \in min_alloc_size..MaxSize : Alloc(size)

SpecSizes == Init /\ [][NextSizes]_vars

\* callers that also ask the pool for its memory usage
NextUsage ==
    \/ \E size \in AllocSizes : Alloc(size)
    \/ \E size \in ReserveSizes : TryReserve(size)
    \/ \E id \in Ids : Drop(id)
    \/ \E n \in 0..MaxAllocNr : Cleanup(n)
    \/ GetMemoryUsage

SpecUsage == Init /\ [][NextUsage]_vars

(***************************************************************************)
(* Operations of the profiler.                                             *)
(***************************************************************************)
\* start(): Instant::now() reads now, not before the latest reading
Start(now) ==
    /\ counter < MaxTokens
    /\ now >= clock
    /\ state' = insert(state, start_token, StateStart(now))
    /\ counter' = counter + 1
    /\ clock' = now
    /\ started' = started \cup {start_token}
    /\ plast' = [op |-> "start", token |-> start_token, ret |-> Err("none")]
    /\ UNCHANGED <<stopped, heard, latest>>
    /\ UNCHANGED <<poolVars, deviceVars, kernelVars, matmulVars, loaderVars>>

\* stop(token): start.elapsed() reads the clock at now
Stop(token, now) ==
    /\ now >= clock
    /\ state' = stop_state(token)
    /\ clock' = now
    /\ stopped' = stopped \cup ({token} \cap started)
    /\ plast' = [op |-> "stop", token |-> token, ret |-> stop_result(token, now)]
    /\ UNCHANGED <<counter, started, heard, latest>>
    /\ UNCHANGED <<poolVars, deviceVars, kernelVars, matmulVars, loaderVars>>

\* error(error)
Error(profile_error) ==
    /\ state' = error_state(profile_error)
    /\ heard' = [t \in TokenIds |->
                    IF t \in started \ stopped
                    THEN heard[t] \cup {profile_error} ELSE heard[t]]
    /\ latest' = [t \in TokenIds |->
                    IF t \in started \ stopped THEN profile_error ELSE latest[t]]
    /\ plast' = [op |-> "error", token |-> 0, ret |-> Err(profile_error)]
    /\ UNCHANGED <<counter, clock, started, stopped>>
    /\ UNCHANGED <<poolVars, deviceVars, kernelVars, matmulVars, loaderVars>>

\* a server that opens and closes profiling tokens while device failures are
\* broadcast
NextProfiler ==
    \/ \E now \in 0..MaxClock : Start(now)
    \/ \E token \in TokenIds : \E now \in 0..MaxClock : Stop(token, now)
    \/ \E profile_error \in ProfileErrors : Error(profile_error)

SpecProfiler == Init /\ [][NextProfiler]_vars

(***************************************************************************)
(* Operations on the device properties.                                    *)
(***************************************************************************)
\* register_feature(feature)
RegisterFeature(feature) ==
    /\ set' = btree_insert(set, feature).set
    /\ flast' = [op |-> "register_feature", feature |-> feature,
                 ret |-> btree_insert(set, feature).inserted]
    /\ UNCHANGED <<memory, hardware, given>>
    /\ UNCHANGED <<poolVars, profilerVars, kernelVars, matmulVars, loaderVars>>

\* a device constructed with any slice of features, duplicates included
InitDevice ==
    /\ PoolNew
    /\ ProfilerDefault
    /\ KernelStart(1)
    /\ MatmulStart(<<0, 2>>, 1)
    /\ LoaderStart(Config("Comptime", 1, 1, 1, 1, 1, 1))
    /\ \E n \in 0..MaxSlice : \E features \in [1..n -> Features] :
       \E memory_props \in MemoryProps : \E hardware_props \in HardwareProps :
          DeviceNew(features, memory_props, hardware_props)

\* a runtime that registers features after construction
NextDevice == \E feature \in Features : RegisterFeature(feature)

SpecDevice == InitDevice /\ [][NextDevice]_vars

(***************************************************************************)
(* Operations on kernel ids.                                               *)
(***************************************************************************)
\* KernelId::new::<T>()
KernelIdNew(slot, T) ==
    /\ kid[slot] = OptNone
    /\ kid' = [kid EXCEPT ![slot] = Some(kernel_id_new(T))]
    /\ src' = [src EXCEPT ![slot] = [T |-> T, x |-> OptNone, m |-> OptNone]]
    /\ UNCHANGED <<proc, next_addr, cache>>
    /\ UNCHANGED <<poolVars, profilerVars, deviceVars, matmulVars, loaderVars>>

\* info(self, info): the payload moves into a new Arc
KernelIdInfo(slot, ty, value) ==
    /\ kid[slot] # OptNone
    /\ next_addr <= MaxInfos
    /\ kid' = [kid EXCEPT ![slot] =
                 Some([kid[slot][1] EXCEPT !.info = Some(InfoNew(ty, value, next_addr))])]
    /\ src' = [src EXCEPT ![slot].x = Some([ty |-> ty, value |-> value])]
    /\ next_addr' = next_addr + 1
    /\ UNCHANGED <<proc, cache>>
    /\ UNCHANGED <<poolVars, profilerVars, deviceVars, matmulVars, loaderVars>>

\* mode(&mut self, mode)
KernelIdMode(slot, mode) ==
    /\ kid[slot] # OptNone
    /\ kid' = [kid EXCEPT ![slot] = Some([kid[slot][1] EXCEPT !.mode = Some(mode)])]
    /\ src' = [src EXCEPT ![slot].m = Some(mode)]
    /\ UNCHANGED <<proc, next_addr, cache>>
    /\ UNCHANGED <<poolVars, profilerVars, deviceVars, matmulVars, loaderVars>>

\* #[derive(Clone)]: the clone shares the Arc of its original
KernelIdClone(from, to) ==
    /\ kid[from] # OptNone
    /\ kid[to] = OptNone
    /\ kid' = [kid EXCEPT ![to] = kid[from]]
    /\ src' = [src EXCEPT ![to] = src[from]]
    /\ UNCHANGED <<proc, next_addr, cache>>
    /\ UNCHANGED <<poolVars, profilerVars, deviceVars, matmulVars, loaderVars>>

\* set.insert(value.clone())
CacheInsert(slot) ==
    /\ kid[slot] # OptNone
    /\ Cardinality(cache) < MaxCache
    /\ cache' = hash_set_insert(cache, kid[slot][1])
    /\ UNCHANGED <<proc, kid, src, next_addr>>
    /\ UNCHANGED <<poolVars, profilerVars, deviceVars, matmulVars, loaderVars>>

\* any process
InitKernel ==
    /\ PoolNew
    /\ ProfilerDefault
    /\ DeviceNew(<<>>, "m1", "h1")
    /\ \E p \in 1..MaxProc : KernelStart(p)
    /\ MatmulStart(<<0, 2>>, 1)
    /\ LoaderStart(Config("Comptime", 1, 1, 1, 1, 1, 1))

\* callers that build, clone and cache kernel ids
NextKernel ==
    \/ \E slot \in Slots : \E T \in KernelTypes : KernelIdNew(slot, T)
    \/ \E slot \in Slots : \E ty \in PayloadTypes : \E value \in PayloadValues :
          KernelIdInfo(slot, ty, value)
    \/ \E slot \in Slots : \E mode \in ExecutionModes : KernelIdMode(slot, mode)
    \/ \E from \in Slots : \E to \in Slots : KernelIdClone(from, to)
    \/ \E slot \in Slots : CacheInsert(slot)

SpecKernel == InitKernel /\ [][NextKernel]_vars

(***************************************************************************)
(* Steps of DoubleBufferingMatmul::execute.                                *)
(***************************************************************************)
\* LhsLoader::fill_stage(.., BufferId::A, ..); RhsLoader::fill_stage(.., BufferId::A, ..)
FillStage ==
    /\ at = "fill"
    /\ fill_no' = fill_stage(fill_no, "A")
    /\ at' = "sync0"
    /\ mlast' = MStep("fill_stage", "-", "A")
    /\ UNCHANGED <<k_range, buffer_step, iter, view, synced, reads>>
    /\ UNCHANGED <<poolVars, profilerVars, deviceVars, kernelVars, loaderVars>>

\* sync_cube(): every fill issued before it is visible to the whole cube
SyncCube ==
    /\ at \in {"sync0", "sync1", "sync2", "sync3"}
    /\ synced' = fill_no
    /\ iter' = IF at = "sync2" THEN iter + 1 ELSE iter
    /\ at' = CASE at = "sync0" -> loop_head(0)
               [] at = "sync1" -> "loop_b"
               [] at = "sync2" -> loop_head(iter + 1)
               [] at = "sync3" -> "tail_b"
    /\ mlast' = MStep("sync_cube", "-", "-")
    /\ UNCHANGED <<k_range, buffer_step, view, fill_no, reads>>
    /\ UNCHANGED <<poolVars, profilerVars, deviceVars, kernelVars, loaderVars>>

\* SMM::execute_with_listener(readers, .., DoubleBufferingEventListener::new(buffer, ..))
ExecuteWithListener ==
    /\ at \in {"loop_a", "loop_b", "tail_a"}
    /\ at = "loop_a" => iter < LoopCap
    /\ reads' = Append(reads, reader_at(at))
    /\ fill_no' = listener_fill(fill_no, buffer_to_load(at))
    /\ at' = CASE at = "loop_a" -> "advance"
               [] at = "loop_b" -> "sync2"
               [] at = "tail_a" -> "sync3"
    /\ mlast' = MStep("execute_with_listener", reader_at(at), buffer_to_load(at))
    /\ UNCHANGED <<k_range, buffer_step, iter, view, synced>>
    /\ UNCHANGED <<poolVars, profilerVars, deviceVars, kernelVars, loaderVars>>

\* LhsLoader::advance_view(.., loop_step); RhsLoader::advance_view(.., loop_step)
AdvanceView ==
    /\ at = "advance"
    /\ view' = view + loop_step
    /\ at' = "sync1"
    /\ mlast' = MStep("advance_view", "-", "-")
    /\ UNCHANGED <<k_range, buffer_step, iter, fill_no, synced, reads>>
    /\ UNCHANGED <<poolVars, profilerVars, deviceVars, kernelVars, loaderVars>>

\* SMM::execute(readers of B, ..)
Execute ==
    /\ at = "tail_b"
    /\ reads' = Append(reads, reader_at(at))
    /\ at' = "write"
    /\ mlast' = MStep("execute", reader_at(at), "-")
    /\ UNCHANGED <<k_range, buffer_step, iter, view, fill_no, synced>>
    /\ UNCHANGED <<poolVars, profilerVars, deviceVars, kernelVars, loaderVars>>

\* SMM::write_results(..)
WriteResults ==
    /\ at = "write"
    /\ at' = "done"
    /\ mlast' = MStep("write_results", "-", "-")
    /\ UNCHANGED <<k_range, buffer_step, iter, view, fill_no, synced, reads>>
    /\ UNCHANGED <<poolVars, profilerVars, deviceVars, kernelVars, loaderVars>>

\* a cube entering execute with any k range and any stage size
InitMatmul ==
    /\ PoolNew
    /\ ProfilerDefault
    /\ DeviceNew(<<>>, "m1", "h1")
    /\ KernelStart(1)
    /\ \E k0 \in 0..MaxK : \E k1 \in k0..MaxK : \E step \in 1..MaxStep :
          MatmulStart(<<k0, k1>>, step)
    /\ LoaderStart(Config("Comptime", 1, 1, 1, 1, 1, 1))

NextMatmul ==
    \/ FillStage
    \/ SyncCube
    \/ ExecuteWithListener
    \/ AdvanceView
    \/ Execute
    \/ WriteResults

SpecMatmul == InitMatmul /\ [][NextMatmul]_vars

(***************************************************************************)
(* Cyclic loading of one buffer.                                           *)
(***************************************************************************)
\* LoadingStrategy::check(config, ident), when the matmul is configured
Check ==
    /\ checked = "no"
    /\ checked' = check
    /\ llast' = LStep("check", 0, FALSE, FALSE)
    /\ UNCHANGED <<config, job, task_id>>
    /\ UNCHANGED <<poolVars, profilerVars, deviceVars, kernelVars, matmulVars>>

\* LoadingStrategy::new_job(buffer_index, input_ident, config) by one unit of
\* the cube, in a kernel launched with a configuration that passed check
NewJob(UNIT_POS_Y, UNIT_POS_X) ==
    /\ checked = "Ok"
    /\ job' = <<new_job(UNIT_POS_Y, UNIT_POS_X)>>
    /\ task_id' = 0
    /\ llast' = LStep("new_job", 0, FALSE, FALSE)
    /\ UNCHANGED <<config, checked>>
    /\ UNCHANGED <<poolVars, profilerVars, deviceVars, kernelVars, matmulVars>>

\* Job::execute_task(this, task_id, ..), for task_id in 0..task_count(this)
ExecuteTask ==
    /\ job # <<>>
    /\ task_id < job[1].num_tasks_per_unit
    /\ llast' = LStep("execute_task", unit_position(job[1], task_id),
                      ~guard_skipped(job[1]), loads(job[1], task_id))
    /\ task_id' = task_id + 1
    /\ UNCHANGED <<config, checked, job>>
    /\ UNCHANGED <<poolVars, profilerVars, deviceVars, kernelVars, matmulVars>>

\* any configuration of whole lines
InitLoader ==
    /\ PoolNew
    /\ ProfilerDefault
    /\ DeviceNew(<<>>, "m1", "h1")
    /\ KernelStart(1)
    /\ MatmulStart(<<0, 2>>, 1)
    /\ \E c \in Configs : LoaderStart(c)

NextLoader ==
    \/ Check
    \/ \E UNIT_POS_Y \in 0..(config.num_planes - 1) :
       \E UNIT_POS_X \in 0..(config.plane_dim - 1) : NewJob(UNIT_POS_Y, UNIT_POS_X)
    \/ ExecuteTask

SpecLoader == InitLoader /\ [][NextLoader]_vars

(***************************************************************************)
(* Properties.                                                             *)
(***************************************************************************)

\* C1: try_reserve never returns a page whose handle still has an external
\* reference, so every reservation starts on a free page and no page ever
\* carries references of two reservations at once.
C1_NoDoubleUse ==
    [][ /\ (last'.op = "try_reserve" /\ last'.ret # None)
            => (is_free(last'.ret) /\ refs'[last'.ret] = 1)
        /\ (last'.op = "alloc" /\ last'.ret # Panic) => is_free(last'.ret)
        /\ \A id \in Ids : stale'[id] = 0 ]_vars

\* try_reserve passed over a smaller page that fits but is held (by a handle and
\* its clone) and returned a larger free one
C1_Witness ==
    /\ last.op = "try_reserve"
    /\ last.ret # None
    /\ \E i \in 1..Len(pages) :
        /\ pages[i].id # last.ret
        /\ refs[pages[i].id] = 2
        /\ pages[i].alloc_size >= last.arg
        /\ pages[i].alloc_size < PageOf(last.ret).alloc_size

\* C2: a page leaves the pool and its buffer leaves storage only in a cleanup
\* step and only if the page was free at the check; a page that is in use is
\* left exactly as it was by cleanup.
C2_FreedOnlyByCleanup ==
    [][ \A i \in 1..Len(pages) :
          LET p == pages[i] IN
          /\ (p.id \notin ids_of(pages') \/ p.id \notin buffers')
                => (last'.op = "cleanup" /\ is_free(p.id))
          /\ (last'.op = "cleanup" /\ ~is_free(p.id))
                => (/\ p.id \in ids_of(pages')
                    /\ p.id \in buffers'
                    /\ page_in(pages', p.id) = p) ]_vars

\* an effective cleanup deallocated a page while it kept a page in use whose
\* free_count was one short of the threshold
C2_Witness ==
    /\ last.op = "cleanup"
    /\ last.freed # {}
    /\ \E i \in 1..Len(pages) :
        /\ ~is_free(pages[i].id)
        /\ pages[i].free_count = ALLOC_AFTER_FREE - 1

\* C3: a page returned by try_reserve(s) was free, has alloc_size >= s and the
\* least alloc_size among the free pages with alloc_size >= s; try_reserve(s)
\* returns None only if no free page has alloc_size >= s.
C3_BestFit ==
    [][ last'.op = "try_reserve" =>
          LET s == last'.arg
              fit == {i \in 1..Len(pages) :
                        pages[i].alloc_size >= s /\ is_free(pages[i].id)}
          IN /\ last'.ret = None => fit = {}
             /\ last'.ret # None =>
                  \E i \in fit :
                    /\ pages[i].id = last'.ret
                    /\ \A j \in fit : pages[i].alloc_size <= pages[j].alloc_size ]_vars

\* try_reserve returned a page although a larger free page that fits comes
\* earlier in the vector
C3_Witness ==
    /\ last.op = "try_reserve"
    /\ last.ret # None
    /\ \E i, j \in 1..Len(pages) :
        /\ i < j
        /\ pages[j].id = last.ret
        /\ is_free(pages[i].id)
        /\ pages[i].alloc_size > pages[j].alloc_size
        /\ pages[j].alloc_size >= last.arg

C6_Original ==
    [][ \A i \in 1..Len(pages) :
          is_free(pages[i].id) =>
            /\ pages[i].id \in ids_of(pages')
            /\ (last'.op = "try_reserve" /\ last'.arg <= pages[i].size)
                  => last'.ret # None ]_vars

\* C6, amended: while a page whose last external clone was dropped is still in
\* the pool, every try_reserve of a size up to the original request succeeds at
\* once with no storage.alloc and no new page; it returns that page unless
\* another free page that fits is smaller, or as large and earlier in the pool.
C6_ReuseWhilePooled ==
    [][ last'.op = "try_reserve" =>
          \A i \in 1..Len(pages) :
            (is_free(pages[i].id) /\ last'.arg <= pages[i].size) =>
              /\ last'.ret # None
              /\ buffers' = buffers
              /\ nextId' = nextId
              /\ Len(pages') = Len(pages)
              /\ \/ last'.ret = pages[i].id
                 \/ \E j \in 1..Len(pages) :
                      /\ j # i
                      /\ pages[j].id = last'.ret
                      /\ is_free(pages[j].id)
                      /\ pages[j].alloc_size >= last'.arg
                      /\ \/ pages[j].alloc_size < pages[i].alloc_size
                         \/ pages[j].alloc_size = pages[i].alloc_size /\ j < i ]_vars

\* a dropped page was reused for a smaller request although another free page
\* that fits was in the pool
C6_Witness ==
    /\ last.op = "try_reserve"
    /\ last.ret # None
    /\ last.arg = 90
    /\ PageOf(last.ret).free_count < ALLOC_AFTER_FREE - 2
    /\ \E j \in 1..Len(pages) :
        /\ pages[j].id # last.ret
        /\ is_free(pages[j].id)
        /\ pages[j].alloc_size >= last.arg

\* C7 as claimed: after alloc(100), drop, try_reserve(90) on a new pool the same
\* page is reused and bytes_padding = the page's alloc_size - 90.
C7_Original ==
    scen = 3 =>
        /\ last.ret = 1
        /\ Len(pages) = 1
        /\ nextId = 2
        /\ get_memory_usage.bytes_reserved = page_alloc_size(100)
        /\ get_memory_usage.bytes_padding = page_alloc_size(100) - 90

\* C7, amended: after alloc(100), drop, try_reserve(90) on a new pool the same
\* page is reused (one page, one storage.alloc, bytes_reserved unchanged) and
\* bytes_padding = calculate_padding(90, alignment), the bytes from 90 up to
\* the next multiple of the alignment.
C7_Scenario ==
    scen = 3 =>
        /\ last.ret = 1
        /\ Len(pages) = 1
        /\ pages[1].id = 1
        /\ buffers = {1}
        /\ nextId = 2
        /\ get_memory_usage.number_allocs = 1
        /\ get_memory_usage.bytes_in_use = 90
        /\ get_memory_usage.bytes_reserved = page_alloc_size(100)
        /\ get_memory_usage.bytes_padding = calculate_padding(90, alignment)
        /\ get_memory_usage.bytes_padding = next_multiple_of(90, alignment) - 90

\* the scenario ran to its end
C7_Witness ==
    /\ scen = 3
    /\ last.op = "try_reserve"
    /\ last.arg = 90
    /\ refs[1] = 1

\* C8: while a binding of a slice is in flight the slice is not free, so no
\* try_reserve returns its page and no cleanup removes the page or its buffer,
\* whether or not the caller still holds a handle.
C8_BindingKeepsPage ==
    [][ \A id \in Ids :
          /\ bound[id] > 0 =>
               /\ ~is_free(id)
               /\ id \in PageIds
               /\ (last'.op = "try_reserve" => last'.ret # id)
               /\ id \in ids_of(pages')
               /\ id \in buffers'
          /\ bound'[id] > 0 => id \in ids_of(pages') ]_vars

\* an effective cleanup check kept a page that only a binding still refers to
\* and whose free_count was one short of the threshold
C8_Witness ==
    /\ last.op = "cleanup"
    /\ last.ret = 1
    /\ \E id \in PageIds :
        /\ bound[id] > 0
        /\ refs[id] = 0
        /\ PageOf(id).free_count = ALLOC_AFTER_FREE - 1

\* C9: alloc panics exactly when handles_alloc(size) is false, and then leaves
\* pages and storage alone; otherwise it pushes exactly one page, allocates
\* exactly one buffer and returns the handle of that page.
C9_AllocPrecondition ==
    [][ last'.op = "alloc" =>
          LET size == last'.arg IN
          /\ (last'.ret = Panic) <=> ~handles_alloc(size)
          /\ (last'.ret = Panic) <=> (size < min_alloc_size)
          /\ last'.ret = Panic =>
               /\ pages' = pages
               /\ buffers' = buffers
               /\ nextId' = nextId
               /\ pc' = "panicked"
          /\ last'.ret # Panic =>
               /\ Len(pages') = Len(pages) + 1
               /\ SubSeq(pages', 1, Len(pages)) = pages
               /\ pages'[Len(pages')].id = last'.ret
               /\ last'.ret \notin PageIds
               /\ buffers' = buffers \cup {last'.ret}
               /\ last'.ret \notin buffers
               /\ refs'[last'.ret] = 1 ]_vars

\* alloc panicked on a size below the minimum in a pool that holds a page
C9_Witness ==
    /\ pc = "panicked"
    /\ last.op = "alloc"
    /\ last.ret = Panic
    /\ Len(pages) >= 1

\* C10: try_reserve(size) returns None when size exceeds every alloc_size the
\* pool ever allocated, and a try_reserve that returns None changes neither
\* the pages nor biggest_alloc nor last_dealloc_check.
C10_NoneLeavesPool ==
    [][ last'.op = "try_reserve" =>
          /\ last'.arg > largest_ever => last'.ret = None
          /\ last'.ret = None =>
               /\ pages' = pages
               /\ biggest_alloc' = biggest_alloc
               /\ last_dealloc_check' = last_dealloc_check
               /\ buffers' = buffers ]_vars

\* try_reserve rejected a size above biggest_alloc while a smaller page was free
C10_Witness ==
    /\ last.op = "try_reserve"
    /\ last.ret = None
    /\ last.arg > largest_ever
    /\ \E i \in 1..Len(pages) : is_free(pages[i].id) /\ pages[i].free_count > 0

\* C11: a successful try_reserve(size) sets the returned page's utilization to
\* {offset 0, size}, recomputes its padding for size and the pool alignment
\* (the bytes from size up to the next multiple of alignment), takes one off
\* its free_count without going below zero, hands out one handle of that
\* page's slice, and leaves the page's id and alloc_size, every other page and
\* the order of the pages as they were.
C11_ReserveEffect ==
    [][ (last'.op = "try_reserve" /\ last'.ret # None) =>
          LET size == last'.arg
              i == get(last'.ret)
          IN /\ i # 0
             /\ Len(pages') = Len(pages)
             /\ pages'[i].id = pages[i].id
             /\ pages'[i].alloc_size = pages[i].alloc_size
             /\ pages'[i].offset = 0
             /\ pages'[i].size = size
             /\ (size + pages'[i].padding) % alignment = 0
             /\ pages'[i].padding \in 0..(alignment - 1)
             /\ pages'[i].free_count =
                    IF pages[i].free_count >= 1 THEN pages[i].free_count - 1 ELSE 0
             /\ refs'[last'.ret] = 1
             /\ \A j \in 1..Len(pages) : j # i => pages'[j] = pages[j] ]_vars

\* a reservation that found free_count already at zero, next to another page
C11_Witness ==
    /\ last.op = "try_reserve"
    /\ last.ret # None
    /\ Len(pages) = 2
    /\ PageOf(last.ret).free_count = 0
    /\ PageOf(last.ret).padding > 0
    /\ \E j \in 1..Len(pages) : pages[j].id # last.ret /\ pages[j].free_count > 0

\* C12: in every reachable state every page's window starts at offset 0 and
\* its logical size plus its padding fits in the page's physical buffer:
\* utilization.size + padding <= alloc_size.
C12_SliceInvariant ==
    \A i \in 1..Len(pages) :
        /\ pages[i].offset = 0
        /\ pages[i].size + pages[i].padding <= pages[i].alloc_size

\* a reservation whose size and padding fill the page to its last byte
C12_Witness ==
    /\ last.op = "try_reserve"
    /\ last.ret # None
    /\ PageOf(last.ret).padding > 0
    /\ PageOf(last.ret).size + PageOf(last.ret).padding = PageOf(last.ret).alloc_size

\* C13: alloc over-allocates by 35%: the physical size of the page it creates
\* is the requested size times 1.35, rounded to the nearest integer (halves
\* upwards), rounded up to the next multiple of alignment; so every page's
\* alloc_size is a multiple of alignment and at least the size requested.
C13_OverAlloc ==
    /\ (last.op = "alloc" /\ last.ret # Panic) =>
          LET size == last.arg
              a == PageOf(last.ret).alloc_size
          IN \E r \in size..(2 * size) :
                /\ 100 * r <= OVER_ALLOC * size + 50
                /\ OVER_ALLOC * size + 50 < 100 * r + 100
                /\ a % alignment = 0
                /\ a >= r
                /\ a - alignment < r
    /\ \A i \in 1..Len(pages) :
          /\ pages[i].alloc_size % alignment = 0
          /\ pages[i].alloc_size >= pages[i].size

\* alloc(119): 160.65 rounds to 161, which needs 192 bytes where 160 would not do
C13_Witness ==
    /\ last.op = "alloc"
    /\ last.arg = 119
    /\ last.ret # Panic
    /\ PageOf(last.ret).alloc_size = 192

C15_MemoryUsage ==
    [][ last'.op = "get_memory_usage" =>
          LET u == last'.ret
              n == Len(pages)
              used(k) == ext_refs(pages[k].id) > 0
              InUse[k \in 0..n] ==
                  IF k = 0 THEN 0
                  ELSE InUse[k - 1] + (IF used(k) THEN pages[k].size ELSE 0)
              Padding[k \in 0..n] ==
                  IF k = 0 THEN 0
                  ELSE Padding[k - 1] + (IF used(k) THEN pages[k].padding ELSE 0)
              Reserved[k \in 0..n] ==
                  IF k = 0 THEN 0 ELSE Reserved[k - 1] + pages[k].alloc_size
          IN /\ u.number_allocs = Cardinality({k \in 1..n : used(k)})
             /\ u.bytes_in_use = InUse[n]
             /\ u.bytes_padding = Padding[n]
             /\ u.bytes_reserved = Reserved[n]
             /\ u.bytes_in_use + u.bytes_padding <= u.bytes_reserved
             /\ UNCHANGED <<pages, last_dealloc_check, biggest_alloc, buffers,
                            refs, stale, bound>> ]_vars

\* usage read while one page is in use with padding and another one is free
C15_Witness ==
    /\ last.op = "get_memory_usage"
    /\ Len(pages) = 2
    /\ last.ret.number_allocs = 1
    /\ last.ret.bytes_padding > 0
    /\ last.ret.bytes_in_use + last.ret.bytes_padding < last.ret.bytes_reserved

\* C16: over any sequence of start, stop and error calls the ids of the tokens
\* start returns are strictly increasing: each one is larger than every id
\* returned before, so no id is handed out twice, not even after its token
\* was stopped.
C16_TokensIncrease ==
    [][ plast'.op = "start" =>
          /\ plast'.token \notin started
          /\ \A t \in started : t < plast'.token
          /\ plast'.token \in DOMAIN state'
          /\ state'[plast'.token].tag = "Start" ]_vars

\* a third token handed out after the first was stopped and the second poisoned
C16_Witness ==
    /\ plast.op = "start"
    /\ plast.token = 2
    /\ 0 \in stopped
    /\ heard[1] # {}
    /\ DOMAIN state = {1, 2}

\* C17: stop consumes the token. stop(token) on a token that start never
\* returned, or that was already passed to stop, returns Err(NotRegistered)
\* and leaves the profiler as it was; so a second stop on the same token
\* returns NotRegistered whether the first one returned a duration or an error.
C17_StopConsumes ==
    [][ (plast'.op = "stop"
            /\ (plast'.token \notin started \/ plast'.token \in stopped)) =>
          /\ plast'.ret = Err(NotRegistered)
          /\ state' = state
          /\ counter' = counter ]_vars

\* a second stop on a token whose first stop returned the broadcast error
C17_Witness ==
    /\ plast.op = "stop"
    /\ plast.token \in stopped
    /\ heard[plast.token] # {}
    /\ plast.ret = Err(NotRegistered)
    /\ DOMAIN state # {}

\* C18, as stated: after error(e) every token started before the call and not
\* yet stopped returns Err(e) from stop, for every error call made while the
\* token was open.
C18_Original ==
    [][ (plast'.op = "stop" /\ plast'.token \in started \ stopped) =>
          \A e \in heard[plast'.token] : plast'.ret = Err(e) ]_vars

\* C18: after error(e) every token started before the call and not yet
\* stopped returns an error from stop and never an Ok duration: Err(e), unless
\* a later error call was made before the stop, and then the error of the
\* latest such call.
C18_PoisonedByLatest ==
    [][ (plast'.op = "stop" /\ plast'.token \in started \ stopped
            /\ heard[plast'.token] # {}) =>
          /\ plast'.ret.tag = "Err"
          /\ plast'.ret = Err(latest[plast'.token]) ]_vars

\* a token that was open during error(E1) and then error(E2) is stopped
C18_Witness ==
    /\ plast.op = "stop"
    /\ heard[plast.token] = {"E1", "E2"}
    /\ latest[plast.token] = "E2"
    /\ plast.ret = Err("E2")

\* C19: after DeviceProperties::new(features, ..) feature_enabled(f) is true
\* exactly for the tags f that occur in features. register_feature(tag)
\* returns true exactly when tag was not yet in the set; when it returns false
\* the set is unchanged; and after either outcome feature_enabled(tag) is true.
C19_RegisterFeature ==
    /\ \A f \in Features :
          feature_enabled(f) <=>
              \E i \in 1..Len(given.features) : given.features[i] = f
    /\ [][ flast'.op = "register_feature" =>
             LET tag == flast'.feature
             IN /\ flast'.ret = ~feature_enabled(tag)
                /\ (~flast'.ret => set' = set)
                /\ (flast'.ret => set' = set \cup {tag})
                /\ \A f \in Features : f = tag => feature_enabled(f)' ]_vars

\* a tag passed twice to new is registered again: false, and still enabled
C19_Witness ==
    /\ flast.op = "register_feature"
    /\ flast.ret = FALSE
    /\ Len(given.features) = 2
    /\ given.features[1] = flast.feature
    /\ given.features[2] = flast.feature
    /\ feature_enabled(flast.feature)
    /\ Cardinality(set) = 1

\* C20: the feature set is append-only: a tag that is enabled stays enabled
\* for the lifetime of the DeviceProperties; memory_properties() and
\* hardware_properties() return the records given at construction, always.
C20_AppendOnly ==
    /\ memory_properties = given.memory
    /\ hardware_properties = given.hardware
    /\ [][ /\ \A f \in Features : feature_enabled(f) => feature_enabled(f)'
           /\ memory_properties' = given.memory
           /\ hardware_properties' = given.hardware
           /\ given' = given ]_vars

\* a set grown past the features given to new, next to the records given to new
C20_Witness ==
    /\ flast.op = "register_feature"
    /\ flast.ret = TRUE
    /\ Len(given.features) = 1
    /\ Cardinality(set) = 3
    /\ memory_properties = "m2"
    /\ hardware_properties = "h2"

\* C21: two KernelIds are equal iff they were built from the same kernel type,
\* the same execution mode (absent only equals absent) and equal info: both
\* without info, or both with payloads of the same concrete type that are
\* equal under that type's own equality. A clone equals its original, and a
\* hash set finds an id exactly when it holds an entry with the same type,
\* mode and equal info, so ids of one type with different info are distinct keys.
C21_Equality ==
    LET SameInfo(x, y) ==
            \/ x = OptNone /\ y = OptNone
            \/ /\ x # OptNone
               /\ y # OptNone
               /\ x[1].ty = y[1].ty
               /\ own_eq(x[1].ty, x[1].value, y[1].value)
    IN /\ \A a \in Built : \A b \in Built :
             kernel_id_eq(kid[a][1], kid[b][1]) <=>
                 /\ src[a].T = src[b].T
                 /\ src[a].m = src[b].m
                 /\ SameInfo(src[a].x, src[b].x)
       /\ \A a \in Built :
             hash_set_contains(cache, kid[a][1]) <=>
                 \E e \in cache :
                     /\ e.type_id = type_id_of(src[a].T)
                     /\ e.mode = src[a].m
                     /\ SameInfo(e.info, src[a].x)

\* the set holds B with Exact(1): B with Exact(2) is not found, and neither is
\* the other kernel type of the same name
C21_Witness ==
    /\ Built = Slots
    /\ Cardinality(cache) = 1
    /\ src[1] = [T |-> "B", x |-> Some([ty |-> "Exact", value |-> 1]), m |-> OptNone]
    /\ src[2].T = "B"
    /\ src[2].x = Some([ty |-> "Exact", value |-> 2])
    /\ hash_set_contains(cache, kid[1][1])
    /\ ~hash_set_contains(cache, kid[2][1])
    /\ ~kernel_id_eq(kid[1][1], kid[2][1])

\* C22: cache-key determinism. Two KernelIds built from the same T, from
\* payloads x and x2 of one type with x2 equal to x under that type's own
\* equality, and from the same mode m are equal and have the same hash, also
\* when x and x2 live in different allocations; and any two equal ids have
\* equal hashes.
C22_KeyDeterminism ==
    \A a \in Built : \A b \in Built :
        LET ka == kid[a][1]
            kb == kid[b][1]
            SameArgs ==
                /\ src[a].T = src[b].T
                /\ src[a].m = src[b].m
                /\ \/ src[a].x = OptNone /\ src[b].x = OptNone
                   \/ /\ src[a].x # OptNone
                      /\ src[b].x # OptNone
                      /\ src[a].x[1].ty = src[b].x[1].ty
                      /\ own_eq(src[a].x[1].ty, src[a].x[1].value, src[b].x[1].value)
        IN /\ SameArgs => kernel_id_eq(ka, kb) /\ kernel_id_hash(ka) = kernel_id_hash(kb)
           /\ kernel_id_eq(ka, kb) => kernel_id_hash(ka) = kernel_id_hash(kb)

\* Loose(1) and Loose(3) in two allocations, same type and mode: one key
C22_Witness ==
    /\ Built = Slots
    /\ src[1].T = src[2].T
    /\ src[1].m = Some("Checked")
    /\ src[2].m = Some("Checked")
    /\ src[1].x = Some([ty |-> "Loose", value |-> 1])
    /\ src[2].x = Some([ty |-> "Loose", value |-> 3])
    /\ kid[1][1].info[1].addr # kid[2][1].info[1].addr
    /\ kernel_id_eq(kid[1][1], kid[2][1])
    /\ kernel_id_hash(kid[1][1]) = kernel_id_hash(kid[2][1])

\* C23: stable_format() is the kernel's type name, the debug rendering of its
\* info and the debug rendering of its mode, joined by "-": a function of T,
\* x and m that does not look at the process, the TypeId or the payload's
\* address; so ids built from identical T, x and m render identically.
C23_StableFormat ==
    LET Render(s) ==
            <<type_name_of(s.T), "-">>
            \o (IF s.x = OptNone THEN <<"None">>
                ELSE <<"Some(">> \o own_debug(s.x[1].ty, s.x[1].value) \o <<")">>)
            \o <<"-">>
            \o (IF s.m = OptNone THEN <<"None">> ELSE <<"Some(", s.m[1], ")">>)
    IN /\ \A a \in Built : stable_format(kid[a][1]) = Render(src[a])
       /\ \A a \in Built : \A b \in Built :
             src[a] = src[b] => stable_format(kid[a][1]) = stable_format(kid[b][1])

\* the same T, x and m in two allocations of the second process
C23_Witness ==
    /\ proc = 2
    /\ Built = Slots
    /\ src[1] = src[2]
    /\ src[1].x # OptNone
    /\ src[1].m # OptNone
    /\ kid[1][1].info[1].addr # kid[2][1].info[1].addr
    /\ stable_format(kid[1][1]) = stable_format(kid[2][1])

\* C24: error(e) overwrites the state of every currently open token with e,
\* tokens poisoned by an earlier error included, and neither adds nor removes
\* a token (is_empty is unchanged by it); so after error(e1) and then
\* error(e2), stop on a token opened before both returns Err(e2).
C24_ErrorOverwrites ==
    [][ /\ plast'.op = "error" =>
             /\ DOMAIN state' = DOMAIN state
             /\ \A t \in DOMAIN state : state'[t] = StateError(plast'.ret.error)
             /\ is_empty' = is_empty
             /\ counter' = counter
        /\ (plast'.op = "stop" /\ plast'.token \in started \ stopped
               /\ Cardinality(heard[plast'.token]) = 2) =>
             /\ plast'.ret = Err(latest[plast'.token])
             /\ state[plast'.token] = StateError(latest[plast'.token]) ]_vars

\* error(E2) lands on a token that error(E1) had poisoned and on one it had not
C24_Witness ==
    /\ plast.op = "error"
    /\ plast.ret = Err("E2")
    /\ \E t \in DOMAIN state : \E u \in DOMAIN state :
          /\ heard[t] = {"E1", "E2"}
          /\ heard[u] = {"E2"}
          /\ state[t] = StateError("E2")
          /\ state[u] = StateError("E2")

\* C25: an error broadcast poisons only the tokens open at the time of the
\* call. stop(t) returns Ok(duration) if and only if t is registered (returned
\* by start and not yet stopped) and no error call was made between the start
\* of t and this stop; a token started after the latest error call is not
\* poisoned by it.
C25_PoisonOnlyOpen ==
    [][ plast'.op = "stop" =>
          (plast'.ret.tag = "Ok" <=>
               /\ plast'.token \in started \ stopped
               /\ heard[plast'.token] = {}) ]_vars

\* a token started after an error returns a duration while an older token is
\* still poisoned
C25_Witness ==
    /\ plast.op = "stop"
    /\ plast.ret.tag = "Ok"
    /\ \E t \in DOMAIN state :
          /\ t < plast.token
          /\ heard[t] # {}
          /\ state[t].tag = "Error"

\* C26: in every reachable state biggest_alloc is at least min_alloc_size and
\* at least the alloc_size of every page in the pool, and it never goes down:
\* it stays at the largest size ever allocated, also after cleanup has
\* deallocated the largest page. Hence the fast rejection size > biggest_alloc
\* of try_reserve never turns down a size that some free page could hold.
C26_BiggestAlloc ==
    /\ biggest_alloc >= min_alloc_size
    /\ biggest_alloc >= largest_ever
    /\ \A i \in 1..Len(pages) : biggest_alloc >= pages[i].alloc_size
    /\ \A size \in ReserveSizes :
          size > biggest_alloc =>
              ~\E i \in 1..Len(pages) :
                  pages[i].alloc_size >= size /\ ext_refs(pages[i].id) = 0

\* cleanup has deallocated the largest page: biggest_alloc still remembers it
C26_Witness ==
    /\ last.op = "cleanup"
    /\ last.freed # {}
    /\ Len(pages) = 1
    /\ pages[1].alloc_size < biggest_alloc
    /\ biggest_alloc > min_alloc_size

\* C27: storage balance. Every buffer cleanup passes to storage.dealloc was
\* returned by an earlier storage.alloc of this pool and had not been
\* deallocated before, one dealloc per page removed; a buffer leaves the
\* storage only in this way and enters it only by alloc, under a fresh id. The
\* buffers allocated and not yet deallocated are exactly the buffers of the
\* pages in the pool, one page per buffer with pairwise distinct slice ids,
\* so get(binding) matches at most one page.
C27_StorageBalance ==
    [][ LET dealloc == IF last'.op = "cleanup" /\ last'.ret # None
                       THEN {f[1] : f \in last'.freed} ELSE {}
        IN /\ dealloc \subseteq buffers
           /\ Cardinality(dealloc) = Cardinality(last'.freed)
           /\ buffers \ buffers' = dealloc
           /\ Len(pages) - Len(pages') =
                 IF last'.op = "alloc" /\ last'.ret # Panic THEN 0 - 1
                 ELSE Cardinality(dealloc)
           /\ buffers' \ buffers =
                 IF last'.op = "alloc" /\ last'.ret # Panic THEN {last'.ret} ELSE {}
           /\ \A id \in buffers' \ buffers : id >= nextId
           /\ buffers' = ids_of(pages')
           /\ Cardinality(buffers') = Len(pages')
           /\ \A id \in Ids :
                 Cardinality({i \in 1..Len(pages') : pages'[i].id = id}) <= 1 ]_vars

\* a cleanup has deallocated the first of two buffers and kept the second
C27_Witness ==
    /\ last.op = "cleanup"
    /\ Cardinality(last.freed) = 1
    /\ nextId = 3
    /\ buffers = {2}
    /\ PageIds = {2}
    /\ get(2) = 1
    /\ get(1) = 0

\* C28: between operations every page in the pool has
\* 0 <= free_count <= ALLOC_AFTER_FREE - 1, so the increment of cleanup never
\* overflows: alloc sets the count to ALLOC_AFTER_FREE - 1, try_reserve only
\* decrements it (not below 0) and cleanup removes exactly the free pages
\* whose incremented count reaches ALLOC_AFTER_FREE.
C28_FreeCountRange ==
    \A i \in 1..Len(pages) :
        /\ pages[i].free_count >= 0
        /\ pages[i].free_count <= ALLOC_AFTER_FREE - 1

\* a cleanup has counted a free page up to the largest value a page can keep
C28_Witness ==
    /\ last.op = "cleanup"
    /\ last.ret # None
    /\ last.freed = {}
    /\ \E i \in 1..Len(pages) :
          is_free(pages[i].id) /\ pages[i].free_count = ALLOC_AFTER_FREE - 1
    /\ \E i \in 1..Len(pages) : pages[i].free_count = 0

C30_InBounds ==
    [][ /\ (llast'.op = "execute_task" /\ ~llast'.guarded) =>
              llast'.unit_position < num_stage_elements
        /\ (llast'.op = "check" /\ config.loader_check_level = "Comptime"
              /\ \E u \in 0..(total_units - 1) : \E t \in 0..(num_tasks_per_unit - 1) :
                    u * config.line_size + t * jump_length >= num_stage_elements) =>
              checked' = "Err" ]_vars

====
